---- MODULE Spec2Model ----
(***************************************************************************)
(* batch_rename.py: planning, execution and undo of a batch rename.        *)
(*                                                                         *)
(* A string is a sequence of one-character strings.  One directory is      *)
(* modelled (--recursive off), so a path is its file name and p.parent is  *)
(* the same for every path.  The disk maps each existing path to the       *)
(* identity of the file stored there.  The mapping file given by           *)
(* --map-file / --undo lives outside the scanned directory.                *)
(*                                                                         *)
(* Spec is the program, run after run.  SanSpec applies sanitize_filename  *)
(* to each name of a bounded set.                                          *)
(***************************************************************************)
EXTENDS Integers, Sequences, FiniteSets, TLC

\* ------------------------------------------------------------------ bounds
MaxRuns == 2          \* invocations of main() in one behaviour
MaxFaults == 1        \* I/O errors the environment raises in one behaviour
MaxNameLen == 3       \* the longest name SanSpec applies sanitize_filename to

\* ----------------------------------------------------------------- strings
DigitChars == <<"0", "1", "2", "3", "4", "5", "6", "7", "8", "9">>

IsDigit(c) == \E k \in 1..10 : DigitChars[k] = c

DigitVal(c) == (CHOOSE k \in 1..10 : DigitChars[k] = c) - 1

\* str(n) for a natural number
RECURSIVE NatStr(_)
NatStr(n) == IF n < 10 THEN <<DigitChars[n + 1]>>
             ELSE Append(NatStr(n \div 10), DigitChars[(n % 10) + 1])

\* str(n) for an int
IntStr(n) == IF n < 0 THEN <<"-">> \o NatStr(0 - n) ELSE NatStr(n)

RECURSIVE Zeros(_)
Zeros(k) == IF k <= 0 THEN <<>> ELSE <<"0">> \o Zeros(k - 1)

\* code points of the characters the model uses (Python compares str by them)
Ord(c) ==
  CASE c = " " -> 32
    [] c = "." -> 46
    [] c = "/" -> 47
    [] IsDigit(c) -> 48 + DigitVal(c)
    [] c = ":" -> 58
    [] c = "[" -> 91
    [] c = "]" -> 93
    [] c = "_" -> 95
    [] c = "a" -> 97
    [] c = "b" -> 98
    [] c = "c" -> 99
    [] c = "d" -> 100
    [] c = "e" -> 101
    [] c = "f" -> 102
    [] c = "g" -> 103
    [] c = "i" -> 105
    [] c = "j" -> 106
    [] c = "k" -> 107
    [] c = "m" -> 109
    [] c = "n" -> 110
    [] c = "o" -> 111
    [] c = "p" -> 112
    [] c = "r" -> 114
    [] c = "s" -> 115
    [] c = "t" -> 116
    [] c = "u" -> 117
    [] c = "x" -> 120
    [] c = "{" -> 123
    [] c = "}" -> 125

\* s < t for Python str
RECURSIVE StrLess(_, _)
StrLess(s, t) ==
  IF t = <<>> THEN FALSE
  ELSE IF s = <<>> THEN TRUE
  ELSE IF Head(s) = Head(t) THEN StrLess(Tail(s), Tail(t))
  ELSE Ord(Head(s)) < Ord(Head(t))

\* s.find(sub) at position k (1-based): does sub occur in s starting at k
OccursAt(s, sub, k) ==
  /\ k >= 1
  /\ k + Len(sub) - 1 <= Len(s)
  /\ \A j \in 1..Len(sub) : s[k + j - 1] = sub[j]

\* sub in s
Contains(s, sub) == \E k \in 1..(Len(s) + 1) : OccursAt(s, sub, k)

\* re.sub(old, new, s) for a literal old: leftmost non-overlapping matches
RECURSIVE ReplaceAll(_, _, _)
ReplaceAll(s, old, new) ==
  IF s = <<>> THEN <<>>
  ELSE IF OccursAt(s, old, 1)
       THEN new \o ReplaceAll(SubSeq(s, Len(old) + 1, Len(s)), old, new)
       ELSE <<Head(s)>> \o ReplaceAll(Tail(s), old, new)

\* ---------------------------------------------------------------- pathlib
\* name.rfind('.') as a 1-based position, 0 when there is no dot
RFindDot(name) ==
  IF \E k \in 1..Len(name) : name[k] = "."
  THEN CHOOSE k \in 1..Len(name) :
         name[k] = "." /\ \A j \in (k + 1)..Len(name) : name[j] # "."
  ELSE 0

\* Path.suffix: the last dot and what follows it, unless the dot is the
\* first or the last character of the name
PathSuffix(name) ==
  LET i == RFindDot(name)
  IN IF 1 < i /\ i < Len(name) THEN SubSeq(name, i, Len(name)) ELSE <<>>

\* Path.stem
PathStem(name) ==
  LET i == RFindDot(name)
  IN IF 1 < i /\ i < Len(name) THEN SubSeq(name, 1, i - 1) ELSE name

\* str.lstrip('.')
RECURSIVE LStripDot(_)
LStripDot(s) ==
  IF s # <<>> /\ Head(s) = "." THEN LStripDot(Tail(s)) ELSE s

\* --------------------------------------------------------- sanitize_filename
\* the characters of INVALID_CHARS_RE; tab and newline stand for the control
\* characters \x00-\x1f
InvalidChars == {"\\", "/", ":", "*", "?", "\"", "<", ">", "|", "\t", "\n"}

\* str.isspace() on the model's alphabet
IsSpace(c) == c \in {" ", "\t", "\n"}

RECURSIVE LStrip(_)
LStrip(s) == IF s # <<>> /\ IsSpace(Head(s)) THEN LStrip(Tail(s)) ELSE s

RECURSIVE RStrip(_)
RStrip(s) ==
  IF s # <<>> /\ IsSpace(s[Len(s)]) THEN RStrip(SubSeq(s, 1, Len(s) - 1)) ELSE s

Strip(s) == RStrip(LStrip(s))

\* a sanitizer without the "_" fallback
sanitize_filename_NoFallback(name) ==
  Strip([k \in 1..Len(name) |->
           IF name[k] \in InvalidChars THEN "_" ELSE name[k]])

sanitize_filename(name) ==
  LET subbed == [k \in 1..Len(name) |->
                   IF name[k] \in InvalidChars THEN "_" ELSE name[k]]
      stripped == Strip(subbed)
  IN IF stripped = <<>> THEN <<"_">> ELSE stripped

\* ------------------------------------------------------- str.format_map
\* Results of an expansion: Ok(text), or the exception that ended it.
\* "Unmodelled" marks format syntax outside the modelled subset (conversions,
\* attribute access, nested fields, other format specs); no pattern of
\* Patterns reaches it.
Ok(text) == [kind |-> "ok", val |-> text]

Raise(kind) == [kind |-> kind, val |-> <<>>]

K_counter == <<"c", "o", "u", "n", "t", "e", "r">>

K_orig == <<"o", "r", "i", "g">>

K_ext == <<"e", "x", "t">>

K_date == <<"d", "a", "t", "e">>

K_mtime == <<"m", "t", "i", "m", "e">>

K_prefix == <<"p", "r", "e", "f", "i", "x">>

K_suffix == <<"s", "u", "f", "f", "i", "x">>

\* the mapping dict of one file; ctx is the record of its values
Lookup(key, ctx) ==
  CASE key = K_counter -> [t |-> "int", v |-> ctx.counter]
    [] key = K_orig    -> [t |-> "str", v |-> ctx.orig]
    [] key = K_ext     -> [t |-> "str", v |-> ctx.ext]
    [] key = K_date    -> [t |-> "dt",  v |-> ctx.date]
    [] key = K_mtime   -> [t |-> "dt",  v |-> ctx.mtime]
    [] key = K_prefix  -> [t |-> "str", v |-> ctx.prefix]
    [] key = K_suffix  -> [t |-> "str", v |-> ctx.suffix]
    [] OTHER           -> [t |-> "missing", v |-> 0]

\* position of the first c in s, 0 when absent
FindChar(s, c) ==
  IF \E k \in 1..Len(s) : s[k] = c
  THEN CHOOSE k \in 1..Len(s) : s[k] = c /\ \A j \in 1..(k - 1) : s[j] # c
  ELSE 0

\* int.__format__ for the specs "", "d" and "0<w>d"
FormatInt(n, spec) ==
  IF spec = <<>> \/ spec = <<"d">> THEN Ok(IntStr(n))
  ELSE IF Len(spec) = 3 /\ spec[1] = "0" /\ IsDigit(spec[2]) /\ spec[3] = "d"
  THEN LET w == DigitVal(spec[2])
           mag == NatStr(IF n < 0 THEN 0 - n ELSE n)
           sign == IF n < 0 THEN <<"-">> ELSE <<>>
       IN Ok(sign \o Zeros(w - Len(sign) - Len(mag)) \o mag)
  ELSE IF spec = <<"s">> THEN Raise("ValueError")
  ELSE Raise("Unmodelled")

\* str.__format__ for the specs "" and "s"; an integer code is a ValueError
FormatStr(v, spec) ==
  IF spec = <<>> \/ spec = <<"s">> THEN Ok(v)
  ELSE IF spec[Len(spec)] = "d" THEN Raise("ValueError")
  ELSE Raise("Unmodelled")

\* the value of mapping[key][index]... formatted with spec
FormatValue(val, spec) ==
  CASE val.t = "int" -> FormatInt(val.v, spec)
    [] val.t = "str" -> FormatStr(val.v, spec)
    [] OTHER -> Raise("Unmodelled")

\* one replacement field, the text between "{" and "}"
FormatField(field, ctx) ==
  LET colon == FindChar(field, ":")
      namePart == IF colon = 0 THEN field ELSE SubSeq(field, 1, colon - 1)
      spec == IF colon = 0 THEN <<>> ELSE SubSeq(field, colon + 1, Len(field))
      open == FindChar(namePart, "[")
      key == IF open = 0 THEN namePart ELSE SubSeq(namePart, 1, open - 1)
      index == IF open = 0 THEN <<>>
               ELSE SubSeq(namePart, open + 1, Len(namePart) - 1)
      val == Lookup(key, ctx)
  IN IF Contains(namePart, <<".">>) \/ Contains(field, <<"{">>)
     THEN Raise("Unmodelled")
     ELSE IF open # 0 /\ (namePart[Len(namePart)] # "]" \/ index = <<>>
                           \/ Contains(index, <<"]">>))
     THEN Raise("ValueError")
     ELSE IF key = <<>> \/ \A k \in 1..Len(key) : IsDigit(key[k])
     THEN Raise("ValueError")          \* positional field under format_map
     ELSE IF val.t = "missing" THEN Raise("KeyError")
     ELSE IF open = 0 THEN FormatValue(val, spec)
     ELSE IF val.t # "str" \/ ~(\A k \in 1..Len(index) : IsDigit(index[k]))
     THEN Raise("TypeError")
     ELSE IF Len(index) # 1 THEN Raise("Unmodelled")
     ELSE IF DigitVal(index[1]) >= Len(val.v) THEN Raise("IndexError")
     ELSE FormatStr(<<val.v[DigitVal(index[1]) + 1]>>, spec)

\* pattern.format_map(mapping): literal text, "{{" and "}}" escapes, and
\* replacement fields, left to right; the first exception ends the expansion
RECURSIVE format_map(_, _)
format_map(s, ctx) ==
  IF s = <<>> THEN Ok(<<>>)
  ELSE IF OccursAt(s, <<"{", "{">>, 1) \/ OccursAt(s, <<"}", "}">>, 1)
  THEN LET r == format_map(SubSeq(s, 3, Len(s)), ctx)
       IN IF r.kind = "ok" THEN Ok(<<Head(s)>> \o r.val) ELSE r
  ELSE IF Head(s) = "}" THEN Raise("ValueError")
  ELSE IF Head(s) = "{"
  THEN LET close == FindChar(s, "}")
       IN IF close = 0 THEN Raise("ValueError")
          ELSE LET f == FormatField(SubSeq(s, 2, close - 1), ctx)
               IN IF f.kind # "ok" THEN f
                  ELSE LET r == format_map(SubSeq(s, close + 1, Len(s)), ctx)
                       IN IF r.kind = "ok" THEN Ok(f.val \o r.val) ELSE r
  ELSE LET r == format_map(Tail(s), ctx)
       IN IF r.kind = "ok" THEN Ok(<<Head(s)>> \o r.val) ELSE r

\* ------------------------------------------------------------ filesystem
\* os.rename(src, dst) raises FileNotFoundError when src is missing
RenameRaises(d, src) == src \notin DOMAIN d

\* the disk after os.rename(src, dst): the file leaves src and is stored at
\* dst, replacing what dst held
RenameDisk(d, src, dst) ==
  [q \in (DOMAIN d \ {src}) \cup {dst} |-> IF q = dst THEN d[src] ELSE d[q]]

\* the candidate f"{stem}_{i}{suffix}" of unique_target
Suffixed(path, i) == PathStem(path) \o <<"_">> \o NatStr(i) \o PathSuffix(path)

RECURSIVE ProbeFrom(_, _, _)
ProbeFrom(path, i, dom) ==
  IF Suffixed(path, i) \notin dom THEN Suffixed(path, i)
  ELSE ProbeFrom(path, i + 1, dom)

\* a target taken as it is, whether it exists or not
unique_target_NoProbe(path, dom) == path

\* unique_target that probes only once
unique_target_OneProbe(path, dom) ==
  IF path \notin dom THEN path ELSE Suffixed(path, 1)

\* unique_target(path) on a disk whose existing paths are dom
unique_target(path, dom) ==
  IF path \notin dom THEN path ELSE ProbeFrom(path, 1, dom)

\* ---------------------------------------------------------------- get_files
\* sorted(xs) of a set of strings
RECURSIVE SortedSeq(_)
SortedSeq(xs) ==
  IF xs = {} THEN <<>>
  ELSE LET m == CHOOSE x \in xs : \A y \in xs \ {x} : StrLess(x, y)
       IN <<m>> \o SortedSeq(xs \ {m})

\* the extension filter: p.suffix.lower().lstrip('.') in exts (the model's
\* alphabet is lower case)
Matches(path, exts) == exts = {} \/ LStripDot(PathSuffix(path)) \in exts

get_files(d, exts) == SortedSeq({q \in DOMAIN d : Matches(q, exts)})

\* a key comparison under which files that tie change places
KeyLess_OrEqual(a, b, sort_by, d, mt) ==
  IF sort_by \in {"mtime", "ctime"} THEN mt[d[a]] <= mt[d[b]]
  ELSE a = b \/ StrLess(a, b)

\* key(a) < key(b) for the --sort-by keys; d is the disk at the time of the
\* sort and mt the st_mtime (--sort-by mtime) or st_ctime (--sort-by ctime)
\* of each file
KeyLess(a, b, sort_by, d, mt) ==
  IF sort_by \in {"mtime", "ctime"} THEN mt[d[a]] < mt[d[b]] ELSE StrLess(a, b)

\* files.sort(key=...): a stable sort, as insertion from the left
RECURSIVE SortFiles(_, _, _, _)
SortFiles(fs, sort_by, d, mt) ==
  IF fs = <<>> THEN <<>>
  ELSE LET rest == SortFiles(SubSeq(fs, 1, Len(fs) - 1), sort_by, d, mt)
           x == fs[Len(fs)]
           \* x goes after the last element whose key is not greater
           after == {k \in 1..Len(rest) : ~KeyLess(x, rest[k], sort_by, d, mt)}
           pos == IF after = {} THEN 0
                  ELSE CHOOSE k \in after : \A j \in after : j <= k
       IN SubSeq(rest, 1, pos) \o <<x>> \o SubSeq(rest, pos + 1, Len(rest))

\* ------------------------------------------------------------------ inputs
N_1j == <<"1", ".", "j">>

N_2j == <<"2", ".", "j">>

N_3j == <<"3", ".", "j">>

N_aj == <<"a", ".", "j">>

N_bj == <<"b", ".", "j">>

N_xj == <<"x", ".", "j">>

N_abj == <<"a", "b", ".", "j">>

N_c == <<"c">>

\* the mapping file a behaviour may start with: none, or one written earlier
NoMap == [exists |-> FALSE, data |-> <<>>]

\* the mapping an apply run of pattern {counter} wrote for 2.j and 3.j
OldMap == [exists |-> TRUE, data |-> <<[src |-> N_2j, dst |-> N_1j],
                                        [src |-> N_3j, dst |-> N_2j]>>]

\* what a behaviour may start from: the directory (file name |-> st_mtime),
\* the st_ctime of its files and the mapping file
InitStates ==
  { [dir |-> (N_2j :> 5) @@ (N_3j :> 5),
     ct |-> (N_2j :> 4) @@ (N_3j :> 3), map |-> NoMap],
    [dir |-> (N_aj :> 3) @@ (N_bj :> 1) @@ (N_xj :> 2),
     ct |-> (N_aj :> 2) @@ (N_bj :> 2) @@ (N_xj :> 1), map |-> NoMap],
    [dir |-> (N_abj :> 1) @@ (N_c :> 2),
     ct |-> (N_abj :> 1) @@ (N_c :> 1), map |-> NoMap],
    [dir |-> (N_1j :> 5) @@ (N_2j :> 5),
     ct |-> (N_1j :> 8) @@ (N_2j :> 9), map |-> OldMap] }

P_counter == <<"{", "c", "o", "u", "n", "t", "e", "r", "}">>

P_x == <<"x">>

P_index == <<"{", "o", "r", "i", "g", "[", "1", "]", "}">>

P_unknown == <<"{", "u", "n", "k", "n", "o", "w", "n", "}", "_">> \o P_counter

P_default == <<"{", "p", "r", "e", "f", "i", "x", "}">> \o P_counter

\* "{counter}.{ext}": the pattern names the extension itself
P_ext == P_counter \o <<".", "{">> \o K_ext \o <<"}">>

\* "{counter}{{ext}}": escaped braces, the literal text "{ext}"
P_escaped == P_counter \o <<"{", "{">> \o K_ext \o <<"}", "}">>

Args(mode, pattern, start, digits, exts, sort_by, prefix) ==
  [mode |-> mode, pattern |-> pattern, start |-> start, digits |-> digits,
   exts |-> exts, sort_by |-> sort_by, prefix |-> prefix, suffix |-> <<>>]

\* the command lines a run may be started with
Configs ==
  { Args("apply", P_counter, 1, 0, {}, "name", <<>>),
    Args("apply", P_x, 1, 0, {}, "name", <<>>),
    Args("preview", P_x, 1, 0, {}, "name", <<>>),
    Args("apply", P_index, 1, 0, {}, "name", <<>>),
    Args("preview", P_unknown, 1, 0, {}, "name", <<>>),
    Args("apply", P_default, 2, 2, {<<"j">>}, "mtime", <<"p">>),
    Args("preview", P_ext, 1, 0, {}, "ctime", <<>>),
    Args("preview", P_escaped, 1, 0, {}, "name", <<>>),
    Args("undo", <<>>, 1, 0, {}, "name", <<>>) }

NoArgs == Args("none", <<>>, 1, 0, {}, "name", <<>>)

\* ------------------------------------------------------------------- state
VARIABLES
  disk,          \* existing path |-> the file stored there (its first name)
  mtime,         \* file |-> st_mtime
  ctime,         \* file |-> st_ctime, the time of its last rename (POSIX)
  clock,         \* the time the next rename happens at
  mapFile,       \* the mapping file: [exists, data]
  pc,            \* "idle" between runs, "plan" in the rename loop, "undo"
  args,          \* the parsed command line of the current or last run
  files,         \* the sorted batch
  pattern,       \* the pattern after the --digits substitution
  idx,           \* position of the next file / record (1-based)
  counter,
  ops,           \* the operations produced so far
  data,          \* undo: the loaded mapping
  reversed_ops,  \* undo: the reversed operations
  exit,          \* how the last run ended: "return", "exit0", "exit1"
  reported,      \* the total printed by the last preview run, -1 if none
  faults,        \* I/O errors raised so far
  nruns,         \* runs started so far
  disk0,         \* history: the disk when the current or last run started
  map0,          \* history: the mapping file when that run started
  log,           \* history: what the current or last run did, step by step
  prev,          \* history: summary of the run before it
  sanitized      \* SanSpec: a name, its sanitized form and that form sanitized

vars == <<disk, mtime, ctime, clock, mapFile, pc, args, files, pattern, idx, counter, ops,
          data, reversed_ops, exit, reported, faults, nruns, disk0, map0, log,
          prev, sanitized>>

\* one step of a run: what happened to src, the counter (or the record's
\* position) it was processed with, the candidate and the resolved target,
\* and the paths that existed when the step began
Event(what, src, cand, dst, ctr, dom) ==
  [what |-> what, src |-> src, cand |-> cand, dst |-> dst, ctr |-> ctr,
   dom |-> dom]

NoName == [name |-> <<>>, out |-> <<>>, again |-> <<>>, done |-> FALSE]

NoPrev == [mode |-> "none", disk0 |-> <<>>, clean |-> FALSE, nrev |-> 0]

\* the last run met no I/O error: an apply run that returned normally, whose
\* renames all succeeded and whose mapping was written, or an undo run that
\* ran to its end without a failed rename
LastClean ==
  \/ /\ args.mode = "apply"
     /\ exit = "return"
     /\ \A k \in 1..Len(log) : log[k].what \in {"renamed", "saved"}
     /\ \E k \in 1..Len(log) : log[k].what = "saved"
  \/ /\ args.mode = "undo"
     /\ exit = "exit0"
     /\ \A k \in 1..Len(log) : log[k].what \in {"reverted", "skipped"}

Init ==
  /\ \E i \in InitStates :
       /\ disk = [q \in DOMAIN i.dir |-> q]
       /\ mtime = i.dir
       /\ ctime = i.ct
       /\ disk0 = [q \in DOMAIN i.dir |-> q]
       /\ mapFile = i.map
       /\ map0 = i.map
  /\ clock = 10
  /\ pc = "idle"
  /\ args = NoArgs
  /\ files = <<>>
  /\ pattern = <<>>
  /\ idx = 1
  /\ counter = 1
  /\ ops = <<>>
  /\ data = <<>>
  /\ reversed_ops = <<>>
  /\ exit = "none"
  /\ reported = -1
  /\ faults = 0
  /\ nruns = 0
  /\ log = <<>>
  /\ prev = NoPrev
  /\ sanitized = NoName

\* -------------------------------------------------------------------- main
\* lines 149-152: --digits turns every bare {counter} into {counter:0<n>d}
DigitsPattern(pat, digits) ==
  IF digits # 0 /\ Contains(pat, P_counter)
  THEN ReplaceAll(pat, P_counter,
                  <<"{">> \o K_counter \o <<":", "0">> \o IntStr(digits) \o <<"d", "}">>)
  ELSE pat

\* line 187: the pattern names its own extension
HasExt(pat) == Contains(pat, <<"{", "e", "x", "t">>)

\* lines 186-190: the new file name for an expansion
NewName(pat, base, ext) ==
  IF HasExt(pat) THEN sanitize_filename(base)
  ELSE sanitize_filename(base) \o (IF ext # <<>> THEN <<".">> \o ext ELSE <<>>)

\* lines 167-175: the naming context of file p
Context(p, ctr, a, mt) ==
  [counter |-> ctr, orig |-> PathStem(p), ext |-> LStripDot(PathSuffix(p)),
   date |-> mt, mtime |-> mt, prefix |-> a.prefix, suffix |-> a.suffix]

\* the rename performed in preview mode too
ShouldRename_Always(a) == a.mode \in {"apply", "preview"}

\* line 199: the rename is performed only with --apply
ShouldRename(a) == a.mode = "apply"

\* a counter that advances only past a rename that succeeded
CounterAfter_OnlyRenamed(ctr, renameFailed) ==
  IF renameFailed THEN ctr ELSE ctr + 1

\* line 204: the counter after a file whose operation was produced
CounterAfter(ctr, renameFailed) == ctr + 1

\* a failed rename that ends the run
PcAfterRenameError_Abort == "idle"

\* lines 202-203: a failed rename is reported and the loop goes on
PcAfterRenameError == "plan"

\* an undo that does not look at src
UndoGuard_DstOnly(dom, src, dst) == dst \in dom

\* line 118: the condition under which undo moves dst back to src
UndoGuard(dom, src, dst) == dst \in dom /\ src \notin dom

\* a run starts: argument parsing, then the undo branch (104-113) or the
\* enumeration, sort and loop set-up (131-157)
StartRun(cfg) ==
  /\ pc = "idle"
  /\ nruns < MaxRuns
  /\ nruns' = nruns + 1
  /\ args' = cfg
  /\ disk0' = disk
  /\ map0' = mapFile
  /\ log' = <<>>
  /\ prev' = [mode |-> args.mode, disk0 |-> disk0, clean |-> LastClean,
              nrev |-> Len(reversed_ops)]
  /\ reported' = -1
  /\ idx' = 1
  /\ ops' = <<>>
  /\ reversed_ops' = <<>>
  /\ counter' = cfg.start
  /\ IF cfg.mode = "undo"
     THEN /\ files' = <<>>
          /\ pattern' = <<>>
          /\ IF mapFile.exists
             THEN /\ data' = mapFile.data
                  /\ pc' = "undo"
                  /\ exit' = "running"
             ELSE /\ data' = <<>>
                  /\ pc' = "idle"
                  /\ exit' = "exit1"
     ELSE LET fs == SortFiles(get_files(disk, cfg.exts), cfg.sort_by, disk,
                              IF cfg.sort_by = "ctime" THEN ctime ELSE mtime)
          IN /\ data' = <<>>
             /\ files' = fs
             /\ pattern' = DigitsPattern(cfg.pattern, cfg.digits)
             /\ IF fs = <<>>
                THEN pc' = "idle" /\ exit' = "exit0"
                ELSE pc' = "plan" /\ exit' = "running"
  /\ UNCHANGED <<disk, mtime, ctime, clock, mapFile, faults, sanitized>>

\* one iteration of the loop of lines 158-207.  io is what the environment
\* does to this file: "ok", "stat" (p.stat() raises OSError) or "rename"
\* (p.rename() raises OSError)
ProcessFile(io) ==
  /\ pc = "plan"
  /\ idx <= Len(files)
  /\ io # "ok" => faults < MaxFaults
  /\ io = "rename" => ShouldRename(args)
  /\ faults' = IF io = "ok" THEN faults ELSE faults + 1
  /\ LET p == files[idx]
         dom == DOMAIN disk
         r == format_map(pattern, Context(p, counter, args, mtime[disk[p]]))
         ext == LStripDot(PathSuffix(p))
         cand == NewName(pattern, r.val, ext)
         target == unique_target(cand, dom)
         fails == io = "rename" \/ RenameRaises(disk, p)
     IN IF io = "stat"
        THEN \* line 164 raises; line 206 reports it; the file is skipped
             /\ log' = Append(log, Event("stat_failed", p, <<>>, <<>>, counter, dom))
             /\ idx' = idx + 1
             /\ UNCHANGED <<disk, ctime, clock, ops, counter, pc, exit>>
        ELSE IF r.kind # "ok"
        THEN \* lines 179-184: sys.exit(1), which line 206 does not catch
             /\ log' = Append(log, Event("expand_failed", p, <<>>, <<>>, counter, dom))
             /\ pc' = "idle"
             /\ exit' = "exit1"
             /\ UNCHANGED <<disk, ctime, clock, ops, counter, idx>>
        ELSE /\ ops' = Append(ops, [src |-> p, dst |-> target])
             /\ IF ~ShouldRename(args)
                THEN /\ log' = Append(log, Event("planned", p, cand, target, counter, dom))
                     /\ UNCHANGED <<disk, ctime, clock, pc, exit>>
                ELSE IF fails
                THEN /\ log' = Append(log, Event("rename_failed", p, cand, target, counter, dom))
                     /\ pc' = PcAfterRenameError
                     /\ exit' = IF PcAfterRenameError = "plan" THEN exit ELSE "exit1"
                     /\ UNCHANGED <<disk, ctime, clock>>
                ELSE /\ log' = Append(log, Event("renamed", p, cand, target, counter, dom))
                     /\ disk' = RenameDisk(disk, p, target)
                     /\ ctime' = [ctime EXCEPT ![disk[p]] = clock]
                     /\ clock' = clock + 1
                     /\ UNCHANGED <<pc, exit>>
             /\ counter' = CounterAfter(counter, ShouldRename(args) /\ fails)
             /\ idx' = idx + 1
  /\ UNCHANGED <<mtime, sanitized, mapFile, args, files, pattern, data, reversed_ops,
                 reported, nruns, disk0, map0, prev>>

\* lines 209-219, after the last file: write the mapping (apply) or print
\* the total (preview).  io = "write" is open()/json.dump raising
SaveMapping(io) ==
  /\ pc = "plan"
  /\ idx > Len(files)
  /\ io # "ok" => faults < MaxFaults /\ ShouldRename(args)
  /\ faults' = IF io = "ok" THEN faults ELSE faults + 1
  /\ IF ShouldRename(args)
     THEN IF io = "ok"
          THEN /\ mapFile' = [exists |-> TRUE, data |-> ops]
               /\ log' = Append(log, Event("saved", <<>>, <<>>, <<>>, counter, DOMAIN disk))
               /\ UNCHANGED reported
          ELSE /\ log' = Append(log, Event("save_failed", <<>>, <<>>, <<>>, counter, DOMAIN disk))
               /\ UNCHANGED <<mapFile, reported>>
     ELSE /\ reported' = Len(ops)
          /\ UNCHANGED <<mapFile, log>>
  /\ pc' = "idle"
  /\ exit' = "return"
  /\ UNCHANGED <<disk, mtime, ctime, clock, sanitized, args, files, pattern, idx, counter,
                 ops, data, reversed_ops, nruns, disk0, map0, prev>>

\* one iteration of the undo loop of lines 114-127
UndoStep(io) ==
  /\ pc = "undo"
  /\ idx <= Len(data)
  /\ LET src == data[idx].src
         dst == data[idx].dst
         dom == DOMAIN disk
     IN /\ io # "ok" => faults < MaxFaults /\ UndoGuard(dom, src, dst)
        /\ faults' = IF io = "ok" THEN faults ELSE faults + 1
        /\ IF UndoGuard(dom, src, dst)
           THEN IF io = "ok" /\ ~RenameRaises(disk, dst)
                THEN /\ disk' = RenameDisk(disk, dst, src)
                     /\ ctime' = [ctime EXCEPT ![disk[dst]] = clock]
                     /\ clock' = clock + 1
                     /\ reversed_ops' = Append(reversed_ops, <<dst, src>>)
                     /\ log' = Append(log, Event("reverted", src, <<>>, dst, idx, dom))
                ELSE /\ log' = Append(log, Event("revert_failed", src, <<>>, dst, idx, dom))
                     /\ UNCHANGED <<disk, ctime, clock, reversed_ops>>
           ELSE /\ log' = Append(log, Event("skipped", src, <<>>, dst, idx, dom))
                /\ UNCHANGED <<disk, ctime, clock, reversed_ops>>
  /\ idx' = idx + 1
  /\ UNCHANGED <<mtime, sanitized, mapFile, pc, args, files, pattern, counter, ops, data,
                 exit, reported, nruns, disk0, map0, prev>>

\* lines 128-129: the count is printed and the run exits
UndoFinish ==
  /\ pc = "undo"
  /\ idx > Len(data)
  /\ pc' = "idle"
  /\ exit' = "exit0"
  /\ UNCHANGED <<disk, mtime, ctime, clock, sanitized, mapFile, args, files, pattern, idx,
                 counter, ops, data, reversed_ops, reported, faults, nruns,
                 disk0, map0, log, prev>>

Next ==
  \/ \E cfg \in Configs : StartRun(cfg)
  \/ \E io \in {"ok", "stat", "rename"} : ProcessFile(io)
  \/ \E io \in {"ok", "write"} : SaveMapping(io)
  \/ \E io \in {"ok", "rename"} : UndoStep(io)
  \/ UndoFinish

Spec == Init /\ [][Next]_vars

\* ----------------------------------------------- sanitize_filename alone
\* the characters the names are made of: a letter, a dot, a space, a path
\* separator, a wildcard and a control character
SanAlphabet == {"a", ".", " ", "/", "*", "\t"}

SanNames == UNION {[1..n -> SanAlphabet] : n \in 0..MaxNameLen}

\* an empty directory, no run started, and one name to sanitize
SanInit ==
  /\ \E n \in SanNames : sanitized = [NoName EXCEPT !.name = n]
  /\ disk = <<>>
  /\ mtime = <<>>
  /\ ctime = <<>>
  /\ disk0 = <<>>
  /\ mapFile = NoMap
  /\ map0 = NoMap
  /\ clock = 10
  /\ pc = "idle"
  /\ args = NoArgs
  /\ files = <<>>
  /\ pattern = <<>>
  /\ idx = 1
  /\ counter = 1
  /\ ops = <<>>
  /\ data = <<>>
  /\ reversed_ops = <<>>
  /\ exit = "none"
  /\ reported = -1
  /\ faults = 0
  /\ nruns = 0
  /\ log = <<>>
  /\ prev = NoPrev

\* sanitize_filename(name), and sanitize_filename of its result
Sanitize ==
  /\ ~sanitized.done
  /\ sanitized' = [sanitized EXCEPT
                     !.out = sanitize_filename(sanitized.name),
                     !.again = sanitize_filename(sanitize_filename(sanitized.name)),
                     !.done = TRUE]
  /\ UNCHANGED <<disk, mtime, ctime, clock, mapFile, pc, args, files, pattern,
                 idx, counter, ops, data, reversed_ops, exit, reported, faults,
                 nruns, disk0, map0, log, prev>>

SanNext == Sanitize

SanSpec == SanInit /\ [][SanNext]_vars

\* every expansion of the modelled patterns stays inside the modelled subset
\* of the format language
Modelled ==
  pc = "plan" /\ idx <= Len(files) =>
    format_map(pattern, Context(files[idx], counter, args, mtime[disk[files[idx]]])).kind # "Unmodelled"

\* ------------------------------------------------------------------ claims
\* the steps of a rename run that produced an operation
Produced == {"planned", "renamed", "rename_failed"}

\* the steps of a rename run in which the pattern was expanded
Expanded == Produced \cup {"expand_failed"}

\* the files stored on a disk, whatever their paths
Stored(d) == {d[q] : q \in DOMAIN d}

RunEnded == pc = "idle" /\ exit # "none"

\* C1: in an apply run the persisted mapping holds a record only for the
\* operations whose rename succeeded on disk: a file whose rename raised an
\* error has no record in the mapping written at the end of the run.
C1_OnlySucceededPersisted ==
  (RunEnded /\ args.mode = "apply" /\ exit = "return"
     /\ log[Len(log)].what = "saved") =>
    \A k \in 1..Len(log) :
      log[k].what = "rename_failed" =>
        \A j \in 1..Len(mapFile.data) : mapFile.data[j].src # log[k].src

\* C2: within one run (preview or apply) no two produced operations have the
\* same destination path.
C2_DistinctDestinations ==
  args.mode \in {"preview", "apply"} =>
    \A i, j \in 1..Len(ops) : i # j => ops[i].dst # ops[j].dst

\* C3: when pattern expansion fails for a file of the batch, whatever its
\* position, the run aborts with no file renamed on disk and no operation
\* produced.
C3_AbortBeforeAnyMutation ==
  (RunEnded /\ exit = "exit1" /\ Len(log) > 0
     /\ log[Len(log)].what = "expand_failed") =>
    disk = disk0 /\ ops = <<>>

\* C4: after an apply run in which every rename succeeded and the mapping was
\* persisted, an undo run on that mapping (no I/O error, nothing else in
\* between) puts every file back at its original path.
C4_UndoRestores ==
  (RunEnded /\ args.mode = "undo" /\ LastClean
     /\ prev.mode = "apply" /\ prev.clean) =>
    disk = prev.disk0

\* C5: a preview run changes nothing on disk and writes no mapping file, and
\* the total it reports is the number of operations it planned.
C5_PreviewIsReadOnly ==
  args.mode = "preview" =>
    /\ disk = disk0
    /\ mapFile = map0
    /\ (RunEnded /\ exit = "return" =>
          reported = Cardinality({k \in 1..Len(log) : log[k].what = "planned"}))

\* a preview run over several files ran to its end
C5_Witness ==
  /\ RunEnded
  /\ args.mode = "preview"
  /\ exit = "return"
  /\ reported >= 2
  /\ Len(ops) = reported

\* C6: undo takes the records in stored order; it moves dst back to src only
\* if, when the record is processed, dst exists and src does not; any other
\* record changes nothing on disk and the next record is processed; no file
\* is ever overwritten.
C6_UndoGuarded ==
  [][(pc = "undo" /\ idx <= Len(data)) =>
       LET src == data[idx].src
           dst == data[idx].dst
           ok == dst \in DOMAIN disk /\ src \notin DOMAIN disk
       IN /\ pc' = "undo" /\ idx' = idx + 1 /\ data' = data
          /\ IF ok
             THEN \/ disk' = disk /\ reversed_ops' = reversed_ops
                  \/ /\ DOMAIN disk' = (DOMAIN disk \ {dst}) \cup {src}
                     /\ disk'[src] = disk[dst]
                     /\ \A q \in DOMAIN disk \ {dst} : disk'[q] = disk[q]
                     /\ reversed_ops' = Append(reversed_ops, <<dst, src>>)
             ELSE disk' = disk /\ reversed_ops' = reversed_ops
          /\ Stored(disk') = Stored(disk)]_vars

\* an undo run skipped a record whose src was occupied and then reversed a
\* later record
C6_Witness ==
  /\ args.mode = "undo"
  /\ \E j, k \in 1..Len(log) :
       /\ j < k
       /\ log[j].what = "skipped"
       /\ log[j].src \in log[j].dom
       /\ log[j].dst \in log[j].dom
       /\ log[k].what = "reverted"

\* C7: undo is idempotent: a second undo on the same mapping right after a
\* first one reverses nothing and leaves the disk as it was.
C7_SecondUndoIsNoOp ==
  (RunEnded /\ args.mode = "undo" /\ LastClean
     /\ prev.mode = "undo" /\ prev.clean) =>
    reversed_ops = <<>> /\ disk = disk0

C9_CounterIsStartPlusPosition ==
  args.mode \in {"preview", "apply"} =>
    \A k \in 1..Len(log) :
      log[k].what \in Expanded => log[k].ctr = args.start + (k - 1)

\* C9 (amended): a file is expanded with counter = start + the number of
\* earlier files of the batch that were not skipped by a failed stat, whether
\* or not the rename of that file or of an earlier file succeeded.
C9_CounterCountsProcessed ==
  args.mode \in {"preview", "apply"} =>
    \A k \in 1..Len(log) :
      log[k].what \in Expanded =>
        log[k].ctr = args.start
                       + Cardinality({j \in 1..(k - 1) : log[j].what # "stat_failed"})

\* a file was expanded after an earlier file of the batch had been skipped by
\* a failed stat, with the counter the skipped file would have had
C9_Witness ==
  /\ args.mode \in {"preview", "apply"}
  /\ \E j, k \in 1..Len(log) :
       /\ j < k
       /\ log[j].what = "stat_failed"
       /\ log[k].what \in Produced
       /\ log[k].ctr = log[j].ctr

\* C10: unique_target returns the candidate unchanged when it does not exist;
\* otherwise stem_i.ext for the smallest i >= 1 whose path does not exist,
\* found within as many probes as there are existing paths; the path it
\* returns never exists at call time.
C10_UniqueTarget ==
  \A k \in 1..Len(log) :
    log[k].what \in Produced =>
      LET e == log[k]
          stem == PathStem(e.cand)
          sfx == PathSuffix(e.cand)
          Nth(i) == stem \o <<"_">> \o IntStr(i) \o sfx
      IN /\ e.dst \notin e.dom
         /\ e.cand \notin e.dom => e.dst = e.cand
         /\ e.cand \in e.dom =>
              \E i \in 1..Cardinality(e.dom) :
                /\ e.dst = Nth(i)
                /\ \A j \in 1..(i - 1) : Nth(j) \in e.dom

\* a candidate that existed, whose first suffixed variant existed too, was
\* resolved to the second variant
C10_Witness ==
  \E k \in 1..Len(log) :
    /\ log[k].what \in Produced
    /\ log[k].cand \in log[k].dom
    /\ Suffixed(log[k].cand, 1) \in log[k].dom
    /\ log[k].dst = Suffixed(log[k].cand, 2)


\* the sort key of a file of the listing at the time of the sort
C11_Key(q) ==
  IF args.sort_by = "mtime" THEN mtime[disk[q]]
  ELSE IF args.sort_by = "ctime" THEN ctime[disk[q]] ELSE 0

\* the listing is in the total order (sort key, path)
C11_Ordered ==
  \A i, j \in 1..Len(files) :
    i < j =>
      IF args.sort_by = "name" THEN StrLess(files[i], files[j])
      ELSE \/ C11_Key(files[i]) < C11_Key(files[j])
           \/ /\ C11_Key(files[i]) = C11_Key(files[j])
              /\ StrLess(files[i], files[j])

\* the steps of the run that handled a file
C11_FileSteps == SelectSeq(log, LAMBDA e : e.what \in Expanded \cup {"stat_failed"})

\* the steps of the run that produced an operation
C11_ProducedSteps == SelectSeq(log, LAMBDA e : e.what \in Produced)

\* C11: operations are produced, executed and recorded in the mapping in the
\* order of the configured sort key (name, mtime or ctime ascending), ties on
\* the key ordered by path: the listing a run starts from is the matching
\* files of the directory in the total order (key, path), which the
\* filesystem state and the arguments determine; the k-th file handled is the
\* k-th of the listing; the operations are the produced ones in the order of
\* handling; and the mapping written is the operations in that order.
C11_SortOrder ==
  args.mode \in {"preview", "apply"} =>
    /\ (pc = "plan" /\ idx = 1) =>
         /\ C11_Ordered
         /\ {files[k] : k \in 1..Len(files)}
              = {q \in DOMAIN disk : Matches(q, args.exts)}
    /\ Len(C11_FileSteps) <= Len(files)
    /\ \A k \in 1..Len(C11_FileSteps) : C11_FileSteps[k].src = files[k]
    /\ Len(ops) = Len(C11_ProducedSteps)
    /\ \A k \in 1..Len(ops) :
         /\ ops[k].src = C11_ProducedSteps[k].src
         /\ ops[k].dst = C11_ProducedSteps[k].dst
    /\ (Len(log) > 0 /\ log[Len(log)].what = "saved") => mapFile.data = ops

\* an apply run sorted by mtime has renamed two files that tie on mtime, the
\* one with the smaller path first, and has written both to the mapping
C11_Witness ==
  /\ RunEnded
  /\ args.mode = "apply"
  /\ args.sort_by = "mtime"
  /\ Len(files) = 2
  /\ mtime[disk0[files[1]]] = mtime[disk0[files[2]]]
  /\ Len(mapFile.data) = 2
  /\ mapFile.data[1].src = files[1]
  /\ mapFile.data[2].src = files[2]
  /\ log[Len(log)].what = "saved"

\* a preview run sorted by ctime has listed three files, two of which tie on
\* ctime, in an order that is not the order of their paths
C11_WitnessCtime ==
  /\ RunEnded
  /\ args.sort_by = "ctime"
  /\ Len(ops) = 3
  /\ StrLess(ops[2].src, ops[1].src)
  /\ ctime[disk[ops[2].src]] = ctime[disk[ops[3].src]]


\* the characters INVALID_CHARS_RE forbids, among those of the alphabet:
\* path separators, wildcards, redirections, quote, colon, control characters
C12_Illegal == {"\\", "/", ":", "*", "?", "\"", "<", ">", "|", "\t", "\n"}

\* C12: sanitize_filename is total and returns, for every name, a non-empty
\* string with none of the illegal characters and no leading or trailing
\* whitespace, and it is idempotent: sanitizing its result gives the result.
C12_SanitizeContract ==
  /\ ~sanitized.done => ENABLED Sanitize
  /\ sanitized.done =>
       /\ sanitized.out # <<>>
       /\ \A k \in 1..Len(sanitized.out) : sanitized.out[k] \notin C12_Illegal
       /\ sanitized.out[1] \notin {" ", "\t", "\n"}
       /\ sanitized.out[Len(sanitized.out)] \notin {" ", "\t", "\n"}
       /\ sanitized.again = sanitized.out

\* a name made of a space, a path separator and a space was sanitized to "_"
C12_Witness ==
  /\ sanitized.done
  /\ sanitized.name = <<" ", "/", " ">>
  /\ sanitized.out = <<"_">>

\* a name made of spaces only was sanitized to the "_" fallback
C12_WitnessFallback ==
  /\ sanitized.done
  /\ sanitized.name = <<" ", " ">>
  /\ sanitized.out = <<"_">>


\* the pattern holds a replacement field that names ext: "{ext}", "{ext:s}",
\* "{ext[0]}"; "{{" and "}}" are literal braces and open no field
RECURSIVE C13_ExtToken(_)
C13_ExtToken(s) ==
  IF s = <<>> THEN FALSE
  ELSE IF OccursAt(s, <<"{", "{">>, 1) \/ OccursAt(s, <<"}", "}">>, 1)
  THEN C13_ExtToken(SubSeq(s, 3, Len(s)))
  ELSE IF Head(s) = "{"
  THEN LET close == FindChar(s, "}")
           field == SubSeq(s, 2, close - 1)
           ends == {k \in 1..Len(field) : field[k] \in {":", "["}}
           key == IF ends = {} THEN field
                  ELSE SubSeq(field, 1, (CHOOSE k \in ends : \A j \in ends : k <= j) - 1)
       IN close # 0 /\ (key = K_ext \/ C13_ExtToken(SubSeq(s, close + 1, Len(s))))
  ELSE C13_ExtToken(Tail(s))

\* C13: the original extension is appended to the sanitized expansion, after
\* a dot and not at all when it is empty, exactly when the pattern holds no
\* ext placeholder; the sanitized expansion alone is the new name only when
\* the pattern holds a well-formed ext placeholder, not when "{ext" is
\* literal text of the pattern.
C13_ExtensionRule ==
  args.mode \in {"preview", "apply"} =>
    \A k \in 1..Len(log) :
      log[k].what \in Produced =>
        LET p == log[k].src
            ext == LStripDot(PathSuffix(p))
            base == sanitize_filename(
                      format_map(pattern, Context(p, log[k].ctr, args, mtime[disk0[p]])).val)
        IN log[k].cand = IF C13_ExtToken(pattern) THEN base
                         ELSE IF ext = <<>> THEN base
                         ELSE base \o <<".">> \o ext


\* C14: every rename an apply run or an undo performs moves a source that
\* existed to a path that did not exist immediately before it, so no file is
\* overwritten and the directory holds the same files, and as many, after
\* the rename as before it (nothing but the program changes the directory).
C14_NoOverwrite ==
  [][disk' # disk =>
       LET e == log'[Len(log')]
           from == IF e.what = "renamed" THEN e.src ELSE e.dst
           to == IF e.what = "renamed" THEN e.dst ELSE e.src
       IN /\ Len(log') = Len(log) + 1
          /\ \/ e.what = "renamed" /\ args.mode = "apply"
             \/ e.what = "reverted" /\ args.mode = "undo"
          /\ from \in DOMAIN disk
          /\ to \notin DOMAIN disk
          /\ DOMAIN disk' = (DOMAIN disk \ {from}) \cup {to}
          /\ disk'[to] = disk[from]
          /\ \A q \in DOMAIN disk \ {from} : disk'[q] = disk[q]
          /\ Stored(disk') = Stored(disk)
          /\ Cardinality(DOMAIN disk') = Cardinality(DOMAIN disk)]_vars

\* an apply run has ended after a rename whose candidate name existed and
\* was avoided, and has left the directory with the files it had
C14_Witness ==
  /\ RunEnded
  /\ args.mode = "apply"
  /\ Stored(disk) = Stored(disk0)
  /\ Cardinality(DOMAIN disk) = Cardinality(DOMAIN disk0)
  /\ \E k \in 1..Len(log) :
       /\ log[k].what = "renamed"
       /\ log[k].cand \in log[k].dom
       /\ log[k].dst \notin log[k].dom

\* an undo run that followed an apply run has ended after moving a file
\* back, and has left the directory with the files it had
C14_WitnessUndo ==
  /\ RunEnded
  /\ args.mode = "undo"
  /\ prev.mode = "apply"
  /\ Stored(disk) = Stored(disk0)
  /\ Cardinality(DOMAIN disk) = Cardinality(DOMAIN disk0)
  /\ \E k \in 1..Len(log) : log[k].what = "reverted"

\* C15: every rename an apply run performed on disk is recoverable: when the
\* run has ended, normally or by the abort on a pattern error, and writing
\* the mapping file did not fail, the mapping file written by the run holds
\* a record for each rename that succeeded during the run.
C15_RenamesRecoverable ==
  (/\ RunEnded
   /\ args.mode = "apply"
   /\ \A k \in 1..Len(log) : log[k].what # "save_failed") =>
    \A k \in 1..Len(log) :
      log[k].what = "renamed" =>
        /\ mapFile.exists
        /\ \E j \in 1..Len(log) : log[j].what = "saved"
        /\ \E j \in 1..Len(mapFile.data) :
             /\ mapFile.data[j].src = log[k].src
             /\ mapFile.data[j].dst = log[k].dst

====
